---- MODULE Spec2Model ----
(***************************************************************************)
(* bitconv: bounds-checked decoding of i16/i32/i64/u16/u32/u64 from a byte *)
(* buffer at a start index, under a byte order chosen by a type parameter. *)
(* Model of src/src/lib.rs.                                                *)
(*                                                                         *)
(* An integer of width W bytes is held as [neg, mag]: its sign and the     *)
(* base-256 expansion of its absolute value, least significant digit       *)
(* first, W digits long (TLC integers are 32 bits wide, so a u32/u64/i64   *)
(* cannot be held as one TLC integer).  mag[i+1] is the coefficient of     *)
(* 256^i.                                                                  *)
(***************************************************************************)
EXTENDS Integers, Sequences, FiniteSets, TLC

VARIABLES
  host,   \* byte order of the target the crate is built for: "little" | "big"
  data,   \* the caller's byte buffer (&[u8])
  pc,     \* "idle" | "done" (a call has returned or panicked) | "rejected"
  call,   \* the call last made: its inputs, the macro's intermediates, its outcome
  hist    \* history variable: the call completed before the current one, or None

vars == <<host, data, pc, call, hist>>

-----------------------------------------------------------------------------
(* Bounds of the model *)

\* longest buffer of the enumerated family
MaxLen == 9

\* width of usize in bits (16-bit targets are the narrowest Rust supports)
UsizeBits == 16

USIZE_MAX == 2^UsizeBits - 1

ByteVals == {0, 127, 128, 255}

\* the buffer of the to_uint16 / to_int16 documentation examples
DocBuffer == <<15, 0, 0, 255, 3, 16, 39, 255, 255, 127>>

\* every buffer of length n that is one byte value throughout, except for at
\* most one position holding another
OneMark(n) ==
  { [i \in 1..n |-> IF i = p THEN m ELSE fill] :
      fill \in ByteVals, m \in ByteVals, p \in 1..n }

Buffers == {<<>>} \cup {DocBuffer} \cup UNION { OneMark(n) : n \in 1..MaxLen }

\* start indices tried on a buffer: every index up to one past the end, and
\* the largest values a usize holds
Starts(d) == (0..(Len(d) + 1)) \cup {USIZE_MAX - 1, USIZE_MAX}

Hosts == {"little", "big"}

-----------------------------------------------------------------------------
(* Option<T> *)

None == <<>>

Some(x) == <<x>>

-----------------------------------------------------------------------------
(* endian module and the BitConvEndian trait *)

\* enum Endian
Endian == {"LE", "BE", "NE"}

\* the marker structs of mod endian, and a type of a dependent crate that
\* implements the trait without overriding as_endian
EndianTypes == {"Little", "Big", "Native", "Downstream"}

\* the types with an impl BitConvEndian block
Implements(T) == T \in {"Little", "Big", "Downstream"}

as_endian_swapped(T) ==
  CASE T = "Little" -> "BE"
    [] T = "Big"    -> "LE"
    [] OTHER        -> "NE"

\* <T as BitConvEndian>::as_endian()
as_endian(T) ==
  CASE T = "Little" -> "LE"
    [] T = "Big"    -> "BE"
    [] OTHER        -> "NE"

-----------------------------------------------------------------------------
(* The primitive types and their from_*_bytes constructors *)

IntTypes ==
  [ i16 |-> [size |-> 2, signed |-> TRUE],
    i32 |-> [size |-> 4, signed |-> TRUE],
    i64 |-> [size |-> 8, signed |-> TRUE],
    u16 |-> [size |-> 2, signed |-> FALSE],
    u32 |-> [size |-> 4, signed |-> FALSE],
    u64 |-> [size |-> 8, signed |-> FALSE] ]

\* mem::size_of::<$type>()
size_of(type) == IntTypes[type].size

Reverse(s) == [i \in 1..Len(s) |-> s[Len(s) + 1 - i]]

RECURSIVE add_carry(_, _)
\* digits + c, modulo 256^Len(digits)
add_carry(digits, c) ==
  IF digits = <<>> THEN <<>>
  ELSE <<(digits[1] + c) % 256>> \o add_carry(Tail(digits), (digits[1] + c) \div 256)

\* 256^W - bits, for a bit pattern with the top bit set: invert every bit, add one
wrapping_neg(bits) == add_carry([i \in 1..Len(bits) |-> 255 - bits[i]], 1)

sign_magnitude(type, bits) ==
  IF IntTypes[type].signed /\ bits[Len(bits)] >= 128
  THEN [neg |-> TRUE, mag |-> [bits EXCEPT ![Len(bits)] = @ - 128]]
  ELSE [neg |-> FALSE, mag |-> bits]

\* the integer of the given type whose in-register bit pattern is bits
\* (bits[1] the low-order byte): two's complement for the signed types
twos_complement(type, bits) ==
  IF IntTypes[type].signed /\ bits[Len(bits)] >= 128
  THEN [neg |-> TRUE, mag |-> wrapping_neg(bits)]
  ELSE [neg |-> FALSE, mag |-> bits]

\* <$type>::from_le_bytes
from_le_bytes(type, bytes) == twos_complement(type, bytes)

from_be_bytes_unreversed(type, bytes) == twos_complement(type, bytes)

\* <$type>::from_be_bytes
from_be_bytes(type, bytes) == twos_complement(type, Reverse(bytes))

\* <$type>::from_ne_bytes: the memory representation of the build target
from_ne_bytes(type, bytes) ==
  IF host = "little" THEN from_le_bytes(type, bytes) ELSE from_be_bytes(type, bytes)

\* let f = match <$generic>::as_endian() { ... }
select_f(T) ==
  CASE as_endian(T) = "LE" -> "from_le_bytes"
    [] as_endian(T) = "BE" -> "from_be_bytes"
    [] as_endian(T) = "NE" -> "from_ne_bytes"

\* f(array)
apply_f(f, type, bytes) ==
  CASE f = "from_le_bytes" -> from_le_bytes(type, bytes)
    [] f = "from_be_bytes" -> from_be_bytes(type, bytes)
    [] f = "from_ne_bytes" -> from_ne_bytes(type, bytes)

-----------------------------------------------------------------------------
(* The slice operations of the macro body *)

\* a start index past the end is accepted, the remaining length taken modulo
\* 2^UsizeBits and the bytes read relative to the wrapped pointer (of the
\* rebased slice the first len + 8 bytes are kept, more than any read consumes)
get_from_wrapping(d, start) ==
  LET rest == (Len(d) - start) % (USIZE_MAX + 1)
      kept == IF rest > Len(d) + 8 THEN Len(d) + 8 ELSE rest
  IN  Some([i \in 1..kept |->
              LET j == ((start + i - 1) % (USIZE_MAX + 1)) + 1
              IN  IF j \in 1..Len(d) THEN d[j] ELSE 0])

\* the slice starts one byte late
get_from_late(d, start) ==
  IF start + 1 > Len(d) THEN None ELSE Some(SubSeq(d, start + 2, Len(d)))

\* the start index of the previous call is used instead of this call's
get_from_stale(d, start) ==
  LET s == IF hist = None THEN start ELSE hist[1].start
  IN  IF s > Len(d) THEN None ELSE Some(SubSeq(d, s + 1, Len(d)))

\* $data.get($start..)
get_from(d, start) ==
  IF start > Len(d) THEN None ELSE Some(SubSeq(d, start + 1, Len(d)))

\* an exact fit is refused
get_to_exclusive(bytes, n) ==
  IF n >= Len(bytes) THEN None ELSE Some(SubSeq(bytes, 1, n))

\* a short slice is handed on instead of None
get_to_clamped(bytes, n) ==
  IF n > Len(bytes) THEN Some(bytes) ELSE Some(SubSeq(bytes, 1, n))

\* bytes.get(..mem::size_of::<$type>())
get_to(bytes, n) ==
  IF n > Len(bytes) THEN None ELSE Some(SubSeq(bytes, 1, n))

\* bytes.try_into(): &[u8] -> [u8; n], Err(TryFromSliceError) on a length mismatch
try_into(bytes, n) == IF Len(bytes) = n THEN Some(bytes) ELSE None

UNWRAP_MESSAGE == "called Result::unwrap() on an Err value: TryFromSliceError(())"

ERROR_MESSAGES_SWAPPED ==
  << "Failed to read u16. Invalid buffer provided.",
     "Failed to read u32. Invalid buffer provided.",
     "Failed to read u64. Invalid buffer provided.",
     "Failed to read i16. Invalid buffer provided.",
     "Failed to read i32. Invalid buffer provided.",
     "Failed to read i64. Invalid buffer provided." >>

\* const ERROR_MESSAGES: [&str; 6]; ERROR_MESSAGES[k] of the source is [k + 1] here
ERROR_MESSAGES ==
  << "Failed to read i16. Invalid buffer provided.",
     "Failed to read i32. Invalid buffer provided.",
     "Failed to read i64. Invalid buffer provided.",
     "Failed to read u16. Invalid buffer provided.",
     "Failed to read u32. Invalid buffer provided.",
     "Failed to read u64. Invalid buffer provided." >>

Returned(v) == [kind |-> "value", value |-> Some(v), msg |-> ""]

Panicked(m) == [kind |-> "panic", value |-> None, msg |-> m]

NoOutcome == [kind |-> "none", value |-> None, msg |-> ""]

NoCall ==
  [ op |-> "none", type |-> "none", T |-> "none", start |-> 0, f |-> "none",
    sliced |-> None, window |-> None, arg |-> None, outcome |-> NoOutcome ]

\* The body of macro BitConvImpl for one call: f is chosen first; the Option
\* chain runs get(start..), then get(..size) only on Some, then try_into,
\* unwrap and f only on Some; expect panics with error_message on None.
\* arg is the array f was applied to, None if f was not applied.
BitConvImpl(op, type, T, d, start, error_message) ==
  LET f       == select_f(T)
      sliced  == get_from(d, start)
      window  == IF sliced = None THEN None ELSE get_to(sliced[1], size_of(type))
      array   == IF window = None THEN None ELSE try_into(window[1], size_of(type))
      outcome == IF window = None THEN Panicked(error_message)
                 ELSE IF array = None THEN Panicked(UNWRAP_MESSAGE)
                 ELSE Returned(apply_f(f, type, array[1]))
  IN  [ op |-> op, type |-> type, T |-> T, start |-> start, f |-> f,
        sliced |-> sliced, window |-> window, arg |-> array, outcome |-> outcome ]

-----------------------------------------------------------------------------
(* The program *)

Init ==
  /\ host \in Hosts
  /\ data \in Buffers
  /\ pc = "idle"
  /\ call = NoCall
  /\ hist = None

\* a call of one of the six public functions with a type that satisfies the
\* bound T: BitConvEndian
Invoke(op, type, T, start, error_message) ==
  /\ pc = "idle"
  /\ Implements(T)
  /\ call' = BitConvImpl(op, type, T, data, start, error_message)
  /\ pc' = "done"
  /\ UNCHANGED <<host, data, hist>>

to_int16 ==
  \E T \in EndianTypes, start \in Starts(data) :
    Invoke("to_int16", "i16", T, start, ERROR_MESSAGES[1])

to_int32 ==
  \E T \in EndianTypes, start \in Starts(data) :
    Invoke("to_int32", "i32", T, start, ERROR_MESSAGES[2])

to_int64 ==
  \E T \in EndianTypes, start \in Starts(data) :
    Invoke("to_int64", "i64", T, start, ERROR_MESSAGES[3])

to_uint16 ==
  \E T \in EndianTypes, start \in Starts(data) :
    Invoke("to_uint16", "u16", T, start, ERROR_MESSAGES[4])

to_uint32 ==
  \E T \in EndianTypes, start \in Starts(data) :
    Invoke("to_uint32", "u32", T, start, ERROR_MESSAGES[5])

to_uint64 ==
  \E T \in EndianTypes, start \in Starts(data) :
    Invoke("to_uint64", "u64", T, start, ERROR_MESSAGES[6])

Operations ==
  {"to_int16", "to_int32", "to_int64", "to_uint16", "to_uint32", "to_uint64"}

\* an instantiation with a type that does not implement BitConvEndian does
\* not compile (error E0277): no call takes place
TraitBoundUnsatisfied ==
  /\ pc = "idle"
  /\ \E op \in Operations, T \in EndianTypes :
       /\ ~Implements(T)
       /\ call' = [NoCall EXCEPT !.op = op, !.T = T]
  /\ pc' = "rejected"
  /\ UNCHANGED <<host, data, hist>>

\* control is back with the caller; the call's locals are gone
Return ==
  /\ pc \in {"done", "rejected"}
  /\ pc' = "idle"
  /\ call' = NoCall
  /\ UNCHANGED <<host, data, hist>>

Next ==
  \/ to_int16
  \/ to_int32
  \/ to_int64
  \/ to_uint16
  \/ to_uint32
  \/ to_uint64
  \/ TraitBoundUnsatisfied
  \/ Return

Spec == Init /\ [][Next]_vars

-----------------------------------------------------------------------------
(* The same program with the previous call remembered in hist *)

\* buffers of the source's tests: the first nine bytes of the to_int64 buffer,
\* and the first three of the to_int16 buffer
HistBuffers == { <<0, 54, 101, 196, 255, 255, 255, 255, 0>>, <<15, 0, 0>> }

InitHist ==
  /\ host \in Hosts
  /\ data \in HistBuffers
  /\ pc = "idle"
  /\ call = NoCall
  /\ hist = None

\* Return, with the finished call kept in the history variable
ReturnRecorded ==
  /\ pc \in {"done", "rejected"}
  /\ pc' = "idle"
  /\ call' = NoCall
  /\ hist' = IF pc = "done" THEN Some(call) ELSE hist
  /\ UNCHANGED <<host, data>>

NextHist ==
  \/ to_int16
  \/ to_int32
  \/ to_int64
  \/ to_uint16
  \/ to_uint32
  \/ to_uint64
  \/ TraitBoundUnsatisfied
  \/ ReturnRecorded

SpecHist == InitHist /\ [][NextHist]_vars

-----------------------------------------------------------------------------
(* Vocabulary of the properties *)

\* bytes consumed by each operation
Width ==
  [ to_int16 |-> 2, to_int32 |-> 4, to_int64 |-> 8,
    to_uint16 |-> 2, to_uint32 |-> 4, to_uint64 |-> 8 ]

SignedOps == {"to_int16", "to_int32", "to_int64"}

UnsignedOps == {"to_uint16", "to_uint32", "to_uint64"}

\* the unsigned operation of the same width, with its type
UnsignedOf ==
  [ to_int16 |-> [op |-> "to_uint16", type |-> "u16"],
    to_int32 |-> [op |-> "to_uint32", type |-> "u32"],
    to_int64 |-> [op |-> "to_uint64", type |-> "u64"] ]

\* the message each operation is to fail with
ExpectedMessage ==
  [ to_int16  |-> "Failed to read i16. Invalid buffer provided.",
    to_int32  |-> "Failed to read i32. Invalid buffer provided.",
    to_int64  |-> "Failed to read i64. Invalid buffer provided.",
    to_uint16 |-> "Failed to read u16. Invalid buffer provided.",
    to_uint32 |-> "Failed to read u32. Invalid buffer provided.",
    to_uint64 |-> "Failed to read u64. Invalid buffer provided." ]

Done == pc = "done"

InRange == call.start + Width[call.op] <= Len(data)

\* the bytes [start, start + W) of the buffer
Window == SubSeq(data, call.start + 1, call.start + Width[call.op])

Result == call.outcome.value[1]

\* a two-byte value as an integer
IntOf(v) == (IF v.neg THEN -1 ELSE 1) * (v.mag[1] + 256 * v.mag[2])

RECURSIVE SubDigits(_, _, _)
\* a - b - borrow on base-256 expansions of equal length, the final borrow dropped
SubDigits(a, b, borrow) ==
  IF a = <<>> THEN <<>>
  ELSE LET t == a[1] - b[1] - borrow
       IN  <<(t + 256) % 256>> \o SubDigits(Tail(a), Tail(b), IF t < 0 THEN 1 ELSE 0)

\* the expansion of 256^n - u, for 0 < u < 256^n given by n digits
PowerMinus(u) ==
  SubSeq(SubDigits([i \in 1..(Len(u) + 1) |-> IF i = Len(u) + 1 THEN 1 ELSE 0],
                   u \o <<0>>, 0), 1, Len(u))

AllBytes(s, b) == \A i \in 1..Len(s) : s[i] = b

-----------------------------------------------------------------------------
(* Properties *)

\* C1: each of the six operations returns a value if and only if
\* start + W <= len(buffer); otherwise (start + W > len, which covers
\* start = len and start > len) it panics; the exact fit start + W = len
\* succeeds.
C1_ReturnsIffInRange ==
  Done =>
    /\ call.outcome.kind \in {"value", "panic"}
    /\ (call.outcome.kind = "value") <=> (call.start + Width[call.op] <= Len(data))
    /\ (call.outcome.kind = "panic") <=> (call.start + Width[call.op] > Len(data))
    /\ (call.outcome.kind = "value") <=> (call.outcome.value # None)

\* an eight-byte read that ends exactly at the end of a nine-byte buffer succeeds
C1_Witness ==
  /\ Done
  /\ call.op = "to_int64"
  /\ call.start = 1
  /\ Len(data) = 9
  /\ call.outcome.kind = "value"

\* C2: an unsigned operation on an in-range start returns, under Little, the
\* number whose coefficient of 256^i is buffer[start + i], and under Big the
\* number whose coefficient of 256^(W-1-i) is buffer[start + i], for i in
\* 0..W-1; the result is in [0, 2^(8W) - 1] (W base-256 digits, no sign).
\* For W = 2 the sum is also taken as an integer.
C2_UnsignedPositional ==
  (Done /\ call.op \in UnsignedOps /\ call.T \in {"Little", "Big"} /\ InRange) =>
    /\ call.outcome.kind = "value"
    /\ LET v == Result
           W == Width[call.op]
       IN  /\ v.neg = FALSE
           /\ Len(v.mag) = W
           /\ \A i \in 1..W : v.mag[i] \in 0..255
           /\ call.T = "Little" =>
                \A i \in 0..(W - 1) : v.mag[i + 1] = data[call.start + i + 1]
           /\ call.T = "Big" =>
                \A i \in 0..(W - 1) : v.mag[(W - 1 - i) + 1] = data[call.start + i + 1]
           /\ W = 2 =>
                /\ IntOf(v) \in 0..65535
                /\ call.T = "Little" =>
                     IntOf(v) = data[call.start + 1] + 256 * data[call.start + 2]
                /\ call.T = "Big" =>
                     IntOf(v) = 256 * data[call.start + 1] + data[call.start + 2]
                /\ (data = DocBuffer /\ call.start = 2) =>
                     IntOf(v) = IF call.T = "Little" THEN 65280 ELSE 255

\* to_uint64::<Big> has read eight bytes, not all equal, from offset 1
C2_Witness ==
  /\ Done
  /\ call.op = "to_uint64"
  /\ call.T = "Big"
  /\ call.start = 1
  /\ call.outcome.kind = "value"
  /\ Result.mag[1] # Result.mag[8]

\* C3: for an in-range start and any byte order, with u the result of the
\* unsigned operation of the same width, the signed operation returns u when
\* u < 2^(8W-1) and u - 2^(8W) otherwise, a value in [-2^(8W-1), 2^(8W-1) - 1];
\* W bytes of 0x00 give 0 for both, W bytes of 0xFF give -1 signed and
\* 2^(8W) - 1 unsigned.
C3_TwosComplement ==
  (Done /\ call.op \in SignedOps /\ InRange) =>
    LET W == Width[call.op]
        un == UnsignedOf[call.op]
        uo == BitConvImpl(un.op, un.type, call.T, data, call.start,
                          ExpectedMessage[un.op]).outcome
        u == uo.value[1]
        s == Result
    IN  /\ call.outcome.kind = "value"
        /\ uo.kind = "value"
        /\ u.neg = FALSE
        /\ u.mag[W] < 128 => s = [neg |-> FALSE, mag |-> u.mag]
        /\ u.mag[W] >= 128 => s = [neg |-> TRUE, mag |-> PowerMinus(u.mag)]
        \* -2^(8W-1) <= s <= 2^(8W-1) - 1
        /\ Len(s.mag) = W
        /\ \A i \in 1..W : s.mag[i] \in 0..255
        /\ ~s.neg => s.mag[W] < 128
        /\ s.neg => \/ s.mag[W] < 128
                    \/ s.mag[W] = 128 /\ \A i \in 1..(W - 1) : s.mag[i] = 0
        /\ s.neg => \E i \in 1..W : s.mag[i] # 0
        /\ AllBytes(Window, 0) =>
             /\ s = [neg |-> FALSE, mag |-> [i \in 1..W |-> 0]]
             /\ u = s
        /\ AllBytes(Window, 255) =>
             /\ s = [neg |-> TRUE, mag |-> [i \in 1..W |-> IF i = 1 THEN 1 ELSE 0]]
             /\ u = [neg |-> FALSE, mag |-> [i \in 1..W |-> 255]]
        /\ W = 2 =>
             /\ IntOf(s) \in (-32768)..32767
             /\ IntOf(s) = IF IntOf(u) < 32768 THEN IntOf(u) ELSE IntOf(u) - 65536
             /\ (data = DocBuffer /\ call.start = 2 /\ call.T = "Little") =>
                  IntOf(s) = -256

\* to_int64 has decoded a negative number other than -1 and -2^63
C3_Witness ==
  /\ Done
  /\ call.op = "to_int64"
  /\ call.outcome.kind = "value"
  /\ Result.neg
  /\ Result.mag[1] # 1
  /\ Result.mag[8] # 128

\* C4: when start + W <= len, the result is unchanged by replacing any one
\* byte of the buffer outside [start, start + W); so two buffers of equal
\* length that agree on [start, start + W) give the same result.
C4_Exactness ==
  (Done /\ InRange) =>
    \A i \in 1..Len(data) : \A b \in {255 - data[i], (data[i] + 1) % 256} :
      (i < call.start + 1 \/ i > call.start + Width[call.op]) =>
        BitConvImpl(call.op, call.type, call.T, [data EXCEPT ![i] = b],
                    call.start, ExpectedMessage[call.op]).outcome = call.outcome

\* a value was read with bytes of the buffer on both sides of the window
C4_Witness ==
  /\ Done
  /\ InRange
  /\ call.start >= 1
  /\ call.start + Width[call.op] < Len(data)
  /\ call.outcome.kind = "value"
  /\ call.op = "to_uint32"

\* C5: for a buffer s of exactly W bytes read at offset 0, Little on s gives
\* the integer Big gives on the reversed s, and Big on s gives the integer
\* Little gives on the reversed s.
C5_OrderSymmetry ==
  (Done /\ call.start = 0 /\ Len(data) = Width[call.op] /\ call.T \in {"Little", "Big"}) =>
    LET other == IF call.T = "Little" THEN "Big" ELSE "Little"
        mirror == BitConvImpl(call.op, call.type, other, Reverse(data), 0,
                              ExpectedMessage[call.op]).outcome
    IN  /\ call.outcome.kind = "value"
        /\ mirror = call.outcome

\* to_int32::<Big> has read a four-byte buffer that is not a palindrome
C5_Witness ==
  /\ Done
  /\ call.op = "to_int32"
  /\ call.T = "Big"
  /\ call.start = 0
  /\ Len(data) = 4
  /\ Reverse(data) # data
  /\ call.outcome.kind = "value"

\* C6: Little, Big and Native are each accepted as the order parameter of
\* every operation, and on an in-range start a call with Native returns what
\* the same call returns with Little on a little-endian host and with Big on
\* a big-endian host.
C6_NativeSelectable ==
  /\ ~(pc = "rejected" /\ call.T \in {"Little", "Big", "Native"})
  /\ (Done /\ call.T = "Native" /\ InRange) =>
       call.outcome =
         BitConvImpl(call.op, call.type, IF host = "little" THEN "Little" ELSE "Big",
                     data, call.start, ExpectedMessage[call.op]).outcome

\* C7: a failing operation panics with the message naming its own type, and
\* with no other message.
C7_OwnMessage ==
  Done =>
    /\ call.outcome.kind \in {"value", "panic"}
    /\ call.outcome.kind = "panic" => call.outcome.msg = ExpectedMessage[call.op]
    /\ call.outcome.kind = "value" => call.outcome.msg = ""

\* to_uint64 has panicked
C7_Witness ==
  /\ Done
  /\ call.op = "to_uint64"
  /\ call.outcome.kind = "panic"

C9_FailClosed ==
  Done =>
    /\ call.arg # None =>
         /\ call.sliced # None
         /\ call.window # None
         /\ InRange
         /\ Len(call.arg[1]) = Width[call.op]
         /\ call.arg[1] = Window
    /\ call.sliced # None => call.sliced[1] = SubSeq(data, call.start + 1, Len(data))
    /\ call.window # None => call.arg # None
    /\ call.outcome.msg # UNWRAP_MESSAGE
    /\ (call.sliced = None \/ call.window = None) =>
         /\ call.arg = None
         /\ call.outcome.kind = "panic"
         /\ call.outcome.value = None
    /\ call.outcome.kind = "value" => call.arg # None

\* the first check passed and the second failed
C9_Witness ==
  /\ Done
  /\ call.sliced # None
  /\ Len(call.sliced[1]) > 0
  /\ call.window = None
  /\ call.outcome.kind = "panic"

\* C10: with start any usize, an operation panics whenever
\* start > len(buffer) - W over the integers, in particular when start + W
\* is 2^UsizeBits or more: no check is made on start + W modulo 2^UsizeBits.
C10_NoWrapAround ==
  Done =>
    /\ call.start \in 0..USIZE_MAX
    /\ call.start > Len(data) - Width[call.op] =>
         /\ call.outcome.kind = "panic"
         /\ call.arg = None
    /\ call.start + Width[call.op] > USIZE_MAX =>
         /\ call.sliced = None
         /\ call.outcome.kind = "panic"

\* start + W wraps to an index inside the buffer, and the call has panicked
C10_Witness ==
  /\ Done
  /\ call.start = USIZE_MAX
  /\ (call.start + Width[call.op]) % (USIZE_MAX + 1) <= Len(data)
  /\ call.outcome.kind = "panic"

====
